---- MODULE Spec2Model ----
(***************************************************************************)
(* State-machine model of src/DuckDuckGo.py: the Browser main window, its  *)
(* QTabWidget of QWebEngineView tabs, the URL bar, the light/dark mode and *)
(* the download handler.  Strings that the code inspects (the URL bar      *)
(* text, URLs) are sequences of one-character strings.                     *)
(***************************************************************************)
EXTENDS Integers, Sequences, FiniteSets, TLC

VARIABLES
    tabs,                 \* QTabWidget pages in tab-strip order: view ids
    currentIndex,         \* QTabWidget.currentIndex(), 0-based
    url,                  \* url[v]: QWebEngineView.url() of every view ever created
    engineCall,           \* last call made on a view: [view, op]
    url_bar,              \* QLineEdit text
    edited,               \* the user typed in the URL bar since the last setText
    urlChangedSeen,       \* the urlChanged lambda has run at least once
    is_dark_mode,         \* self.is_dark_mode
    styleSheet,           \* the style sheet applied to the window
    mode_action,          \* text of the mode switcher action
    downloadConnections,  \* connections of download_requested to the profile signal
    phase,                \* "Idle" | "Emitting": emission of downloadRequested
    download,             \* the QWebEngineDownloadItem of the current event
    slotsLeft,            \* connected slots still to be called in this emission
    chooserShown,         \* save-file dialogs shown for this event
    file_path,            \* what the last save-file dialog returned
    calls                 \* calls the handler made on the download item, this event

vars == <<tabs, currentIndex, url, engineCall, url_bar, edited, urlChangedSeen,
          is_dark_mode, styleSheet, mode_action, downloadConnections, phase,
          download, slotsLeft, chooserShown, file_path, calls>>

tabVars == <<tabs, currentIndex>>
themeVars == <<is_dark_mode, styleSheet, mode_action>>
downloadVars == <<phase, download, slotsLeft, chooserShown, file_path, calls>>
barVars == <<url_bar, edited, urlChangedSeen>>

-----------------------------------------------------------------------------
(* Bounds *)

MaxViews == 2

MaxTabViews == 4

MaxLen == 5

-----------------------------------------------------------------------------
(* Strings and URLs *)

StartAddress ==
    <<"h","t","t","p","s",":","/","/","s","t","a","r","t",".",
      "d","u","c","k","d","u","c","k","g","o",".","c","o","m">>

SearchPrefix == StartAddress \o <<"/","?","q","=">>

Http == <<"h","t","t","p">>

\* QUrl(str): the engine's URL value built from a string.  The texts of the
\* model use only characters QUrl keeps as they are.
QUrl(s) == [text |-> s]

toString(qurl) == qurl.text

StartUrl == QUrl(StartAddress)

\* Python's  sub in s  scanning s from position i
RECURSIVE FindFrom(_, _, _)
FindFrom(s, sub, i) ==
    IF i + Len(sub) - 1 > Len(s) THEN FALSE
    ELSE IF SubSeq(s, i, i + Len(sub) - 1) = sub THEN TRUE
    ELSE FindFrom(s, sub, i + 1)

\* a scan that only looks at the start of s
ContainsAtStart(s, sub) == Len(sub) <= Len(s) /\ SubSeq(s, 1, Len(sub)) = sub

\* Python's  sub in s
Contains(s, sub) == FindFrom(s, sub, 1)

\* load_url: the string handed to QUrl
LoadTarget(text) ==
    IF ~Contains(text, Http) THEN SearchPrefix \o text ELSE text

ExampleCom == <<"e","x","a","m","p","l","e",".","c","o","m">>

HttpsExampleCom == <<"h","t","t","p","s",":","/","/">> \o ExampleCom

Alphabet == {"h", "t", "p"}

\* what the user types in the model of the whole window
Texts == {Http, <<"p","t">>}

\* the URLs a view can be at in the model of the whole window
UrlUniverse == {StartUrl} \cup {QUrl(LoadTarget(t)) : t \in Texts}

-----------------------------------------------------------------------------
(* QTabWidget *)

RemoveAt(s, i) == SubSeq(s, 1, i - 1) \o SubSeq(s, i + 1, Len(s))

InsertAt(s, i, e) == SubSeq(s, 1, i - 1) \o <<e>> \o SubSeq(s, i, Len(s))

IndexOf(s, e) == CHOOSE i \in 1..Len(s) : s[i] = e

\* a tab strip that opens new pages at the front
AddTabPagesFront(pages, w) == <<w>> \o pages

\* QTabWidget.addTab: the page goes to the end; returns its 0-based index
AddTabPages(pages, w) == Append(pages, w)

\* a removal that leaves the current index as it was
CurrentAfterRemoveKept(cur, index, count) == cur

\* QTabWidget.removeTab(index): the current index afterwards (SelectRightTab)
CurrentAfterRemove(cur, index, count) ==
    IF index < cur THEN cur - 1
    ELSE IF index = cur /\ index = count - 1 THEN cur - 1
    ELSE cur

\* a close that does not spare the last tab
MayCloseLast(count) == count > 0

\* close_tab's condition
MayClose(count) == count > 1

\* a dispatcher that always takes the first tab
FirstWidget == tabs[1]

\* QTabWidget.currentWidget()
CurrentWidget == tabs[currentIndex + 1]

-----------------------------------------------------------------------------
(* Mode *)

LightMode == [styleSheet |-> "light_mode_style", mode_action |-> "sun"]

DarkMode == [styleSheet |-> "dark_mode_style", mode_action |-> "crescent_moon"]

\* a toggle that never records that the window went dark
ToggleModeUnrecorded(th) ==
    IF th.is_dark_mode
    THEN [is_dark_mode |-> FALSE, styleSheet |-> LightMode.styleSheet,
          mode_action |-> LightMode.mode_action]
    ELSE [is_dark_mode |-> FALSE, styleSheet |-> DarkMode.styleSheet,
          mode_action |-> DarkMode.mode_action]

\* toggle_mode on the theme [is_dark_mode, styleSheet, mode_action]
ToggleMode(th) ==
    IF th.is_dark_mode
    THEN [is_dark_mode |-> FALSE, styleSheet |-> LightMode.styleSheet,
          mode_action |-> LightMode.mode_action]
    ELSE [is_dark_mode |-> TRUE, styleSheet |-> DarkMode.styleSheet,
          mode_action |-> DarkMode.mode_action]

Theme == [is_dark_mode |-> is_dark_mode, styleSheet |-> styleSheet,
          mode_action |-> mode_action]

-----------------------------------------------------------------------------
(* QWebEngineDownloadItem *)

NoDownload == [path |-> "", state |-> "None"]

SuggestedPaths == {"/tmp/file.zip"}

\* what QFileDialog.getSaveFileName can return; "" is a cancelled dialog
ChooserResults == {"", "/home/user/file.zip", "/tmp/file.zip"}

\* QWebEngineDownloadItem.setPath: ignored once the download left DownloadRequested
SetPath(d, p) == IF d.state = "DownloadRequested" THEN [d EXCEPT !.path = p] ELSE d

\* QWebEngineDownloadItem.accept
Accept(d) ==
    IF d.state = "DownloadRequested" THEN [d EXCEPT !.state = "DownloadInProgress"] ELSE d

SetPathCall(p) == [op |-> "setPath", arg |-> p]

AcceptCall == [op |-> "accept", arg |-> ""]

\* a handler that accepts whatever the dialog returned
HandlerCallsUnchecked(fp) == <<SetPathCall(fp), AcceptCall>>

\* the calls download_requested makes on the item for a dialog result
HandlerCalls(fp) == IF fp # "" THEN <<SetPathCall(fp), AcceptCall>> ELSE <<>>

RECURSIVE ApplyCalls(_, _)
ApplyCalls(d, cs) ==
    IF cs = <<>> THEN d
    ELSE ApplyCalls(IF Head(cs).op = "setPath" THEN SetPath(d, Head(cs).arg) ELSE Accept(d),
                    Tail(cs))

-----------------------------------------------------------------------------
(* Initial state: the window after Browser.__init__ *)

Init ==
    /\ tabs = <<1>>
    /\ currentIndex = 0
    /\ url = <<StartUrl>>
    /\ engineCall = [view |-> 1, op |-> "setUrl"]
    /\ url_bar = <<>>
    /\ edited = FALSE
    /\ urlChangedSeen = FALSE
    /\ is_dark_mode = FALSE
    /\ styleSheet = LightMode.styleSheet
    /\ mode_action = LightMode.mode_action
    /\ downloadConnections = 1
    /\ phase = "Idle"
    /\ download = NoDownload
    /\ slotsLeft = 0
    /\ chooserShown = 0
    /\ file_path = ""
    /\ calls = <<>>

-----------------------------------------------------------------------------
(* Handlers *)

\* a slot that marks the event and leaves the text alone
UrlChangedSlotNoText(qurl) ==
    /\ url_bar' = url_bar
    /\ edited' = FALSE
    /\ urlChangedSeen' = TRUE

\* the lambda connected to urlChanged: self.url_bar.setText(qurl.toString())
UrlChangedSlot(qurl) ==
    /\ url_bar' = toString(qurl)
    /\ edited' = FALSE
    /\ urlChangedSeen' = TRUE

\* QWebEngineView.setUrl on a view whose urlChanged is connected
SetUrl(v, qurl) ==
    /\ url' = [url EXCEPT ![v] = qurl]
    /\ engineCall' = [view |-> v, op |-> "setUrl"]
    /\ IF url[v] # qurl THEN UrlChangedSlot(qurl) ELSE UNCHANGED barVars

\* add_new_tab(qurl): qurl is <<>> for None, <<u>> for a QUrl
add_new_tab(qurl) ==
    /\ phase = "Idle"
    /\ LET v == Len(url) + 1
           i == Len(tabs)
       IN /\ url' = Append(url, IF qurl # <<>> THEN qurl[1] ELSE StartUrl)
          /\ engineCall' = [view |-> v, op |-> "setUrl"]
          /\ downloadConnections' = downloadConnections + 1
          /\ tabs' = AddTabPages(tabs, v)
          /\ currentIndex' = i
    /\ UNCHANGED <<barVars, themeVars, downloadVars>>

new_tab == add_new_tab(<<StartUrl>>)

load_url ==
    /\ phase = "Idle"
    /\ SetUrl(CurrentWidget, QUrl(LoadTarget(url_bar)))
    /\ UNCHANGED <<tabVars, themeVars, downloadConnections, downloadVars>>

go_home ==
    /\ phase = "Idle"
    /\ SetUrl(CurrentWidget, StartUrl)
    /\ UNCHANGED <<tabVars, themeVars, downloadConnections, downloadVars>>

\* back(), forward(), reload() on a view: handed to the engine
EngineOp(v, op) ==
    /\ engineCall' = [view |-> v, op |-> op]
    /\ UNCHANGED <<url, barVars>>

go_back ==
    /\ phase = "Idle"
    /\ EngineOp(CurrentWidget, "back")
    /\ UNCHANGED <<tabVars, themeVars, downloadConnections, downloadVars>>

go_forward ==
    /\ phase = "Idle"
    /\ EngineOp(CurrentWidget, "forward")
    /\ UNCHANGED <<tabVars, themeVars, downloadConnections, downloadVars>>

reload_page ==
    /\ phase = "Idle"
    /\ EngineOp(CurrentWidget, "reload")
    /\ UNCHANGED <<tabVars, themeVars, downloadConnections, downloadVars>>

close_tab(index) ==
    /\ phase = "Idle"
    /\ IF MayClose(Len(tabs))
       THEN /\ tabs' = RemoveAt(tabs, index + 1)
            /\ currentIndex' = CurrentAfterRemove(currentIndex, index, Len(tabs))
       ELSE UNCHANGED tabVars
    /\ UNCHANGED <<url, engineCall, barVars, themeVars, downloadConnections, downloadVars>>

toggle_mode ==
    /\ phase = "Idle"
    /\ is_dark_mode' = ToggleMode(Theme).is_dark_mode
    /\ styleSheet' = ToggleMode(Theme).styleSheet
    /\ mode_action' = ToggleMode(Theme).mode_action
    /\ UNCHANGED <<tabVars, url, engineCall, barVars, downloadConnections, downloadVars>>

\* the user selects a tab in the tab strip
Activate(index) ==
    /\ phase = "Idle"
    /\ index # currentIndex
    /\ currentIndex' = index
    /\ UNCHANGED <<tabs, url, engineCall, barVars, themeVars, downloadConnections,
                   downloadVars>>

\* the user drags a tab to another place (setMovable): the current page stays current
MoveTab(from, to) ==
    /\ phase = "Idle"
    /\ from # to
    /\ tabs' = InsertAt(RemoveAt(tabs, from + 1), to + 1, tabs[from + 1])
    /\ currentIndex' = IndexOf(tabs', CurrentWidget) - 1
    /\ UNCHANGED <<url, engineCall, barVars, themeVars, downloadConnections, downloadVars>>

\* the user types text in the URL bar
UrlBarEdit(text) ==
    /\ phase = "Idle"
    /\ url_bar' = text
    /\ edited' = TRUE
    /\ UNCHANGED <<tabVars, url, engineCall, urlChangedSeen, themeVars,
                   downloadConnections, downloadVars>>

\* the engine reports a new URL for a view (history move, link, redirect): the
\* view may be any view created so far, removeTab does not delete the page
EngineUrlChanged(v, qurl) ==
    /\ phase = "Idle"
    /\ url[v] # qurl
    /\ url' = [url EXCEPT ![v] = qurl]
    /\ UrlChangedSlot(qurl)
    /\ UNCHANGED <<tabVars, engineCall, themeVars, downloadConnections, downloadVars>>

\* the engine emits downloadRequested: every connected slot will be called
EngineDownloadRequested(suggested) ==
    /\ phase = "Idle"
    /\ phase' = "Emitting"
    /\ download' = [path |-> suggested, state |-> "DownloadRequested"]
    /\ slotsLeft' = downloadConnections
    /\ chooserShown' = 0
    /\ file_path' = ""
    /\ calls' = <<>>
    /\ UNCHANGED <<tabVars, url, engineCall, barVars, themeVars, downloadConnections>>

\* download_requested(download): one slot call; fp is what the dialog returns
download_requested(fp) ==
    /\ phase = "Emitting"
    /\ slotsLeft > 0
    /\ slotsLeft' = slotsLeft - 1
    /\ chooserShown' = chooserShown + 1
    /\ file_path' = fp
    /\ calls' = calls \o HandlerCalls(fp)
    /\ download' = ApplyCalls(download, HandlerCalls(fp))
    /\ UNCHANGED <<phase, tabVars, url, engineCall, barVars, themeVars, downloadConnections>>

\* the emission returns: a download nobody accepted is cancelled by the engine
EmissionDone ==
    /\ phase = "Emitting"
    /\ slotsLeft = 0
    /\ phase' = "Idle"
    /\ download' = IF download.state = "DownloadRequested"
                   THEN [download EXCEPT !.state = "DownloadCancelled"]
                   ELSE download
    /\ UNCHANGED <<slotsLeft, chooserShown, file_path, calls, tabVars, url, engineCall,
                   barVars, themeVars, downloadConnections>>

-----------------------------------------------------------------------------
(* Specifications *)

\* a new tab, from the toolbar or from a call that passes no URL
AddTab == Len(url) < MaxViews /\ (new_tab \/ add_new_tab(<<>>))

AddTabMany == Len(url) < MaxTabViews /\ (new_tab \/ add_new_tab(<<>>))

CloseTab == \E index \in 0..(Len(tabs) - 1) : close_tab(index)

ActivateTab == \E index \in 0..(Len(tabs) - 1) : Activate(index)

MoveTabs == \E from, to \in 0..(Len(tabs) - 1) : MoveTab(from, to)

TypeText == \E text \in Texts : UrlBarEdit(text)

\* typing a character, clearing the bar, pasting one of two addresses
TypeAnyText ==
    \E text \in {Append(url_bar, c) : c \in {d \in Alphabet : Len(url_bar) < MaxLen}}
                 \cup {<<>>, ExampleCom, HttpsExampleCom} : UrlBarEdit(text)

UrlChanged == \E v \in 1..Len(url), qurl \in UrlUniverse : EngineUrlChanged(v, qurl)

DownloadEvent == \E suggested \in SuggestedPaths : EngineDownloadRequested(suggested)

DownloadSlot == \E fp \in ChooserResults : download_requested(fp)

\* the whole window, downloads apart
Next ==
    \/ AddTab
    \/ CloseTab
    \/ ActivateTab
    \/ MoveTabs
    \/ TypeText
    \/ load_url
    \/ go_home
    \/ go_back
    \/ go_forward
    \/ reload_page
    \/ toggle_mode
    \/ UrlChanged

Spec == Init /\ [][Next]_vars

\* the tab collection alone, with more tabs
NextTabs ==
    \/ AddTabMany
    \/ CloseTab
    \/ ActivateTab
    \/ MoveTabs

SpecTabs == Init /\ [][NextTabs]_vars

\* tabs and downloads
NextDownload ==
    \/ AddTab
    \/ CloseTab
    \/ ActivateTab
    \/ DownloadEvent
    \/ DownloadSlot
    \/ EmissionDone

SpecDownload == Init /\ [][NextDownload]_vars

\* the URL bar and load_url over every short text
NextLoadUrl ==
    \/ TypeAnyText
    \/ load_url

SpecLoadUrl == Init /\ [][NextLoadUrl]_vars

-----------------------------------------------------------------------------
(* Properties *)

\* C1: the tab count never drops below 1, whatever is added, closed, activated
\* or moved; closing the only tab leaves it in place.
C1_AtLeastOneTab == Len(tabs) >= 1

\* every view but one has been opened and closed again
C1_ClosedDownToOne == Len(tabs) = 1 /\ Len(url) = MaxTabViews

\* C2: every step that creates a view adds exactly one tab, at the end of the
\* sequence and in front of nothing, leaves the other tabs and views as they
\* were, makes the new tab current, and points it at the start address whether
\* or not a URL was passed.
C2_AddTabAppendsAndActivates ==
    [][Len(url') > Len(url) =>
          /\ Len(url') = Len(url) + 1
          /\ SubSeq(url', 1, Len(url)) = url
          /\ url'[Len(url')] = QUrl(StartAddress)
          /\ Len(tabs') = Len(tabs) + 1
          /\ SubSeq(tabs', 1, Len(tabs)) = tabs
          /\ tabs'[Len(tabs')] = Len(url')
          /\ currentIndex' = Len(tabs') - 1]_vars

\* three tabs were added one after another; the newest is last and current
C2_ThreeAdded ==
    /\ Len(tabs) >= 3
    /\ Len(tabs) = Len(url)
    /\ tabs[Len(tabs)] = Len(url)
    /\ currentIndex = Len(tabs) - 1

\* the address load_url must go to, read off the text position by position
C3_Expected(t) ==
    IF \E i \in 1..(Len(t) - 3) :
          t[i] = "h" /\ t[i + 1] = "t" /\ t[i + 2] = "t" /\ t[i + 3] = "p"
    THEN t
    ELSE <<"h","t","t","p","s",":","/","/","s","t","a","r","t",".",
           "d","u","c","k","d","u","c","k","g","o",".","c","o","m",
           "/","?","q","=">> \o t

\* C3: load_url sends the current view to the URL bar text itself when the text
\* contains "http" anywhere, and otherwise to the start address followed by
\* "/?q=" and the text as typed.
C3_AddressOrSearch ==
    [][load_url => url'[tabs[currentIndex + 1]] = QUrl(C3_Expected(url_bar))]_vars

\* "example.com" has been searched for
C3_ExampleSearched ==
    /\ url[1] = QUrl(SearchPrefix \o ExampleCom)
    /\ url_bar = SearchPrefix \o ExampleCom
    /\ ~edited

\* C4: the glyph is the sun and the style sheet the light one exactly when the
\* mode is light, the moon and the dark one exactly when it is dark; one toggle
\* changes the mode and a second one restores mode, style sheet and glyph.
C4_ToggleInvolution ==
    /\ (is_dark_mode => mode_action = "crescent_moon" /\ styleSheet = "dark_mode_style")
    /\ (~is_dark_mode => mode_action = "sun" /\ styleSheet = "light_mode_style")
    /\ ToggleMode(Theme).is_dark_mode # is_dark_mode
    /\ ToggleMode(ToggleMode(Theme)) = Theme

\* the window has been toggled to dark
C4_Dark == is_dark_mode /\ mode_action = "crescent_moon" /\ styleSheet = "dark_mode_style"

\* C5: a call of the download handler issues setPath(chosen) followed by
\* accept() when the dialog returned a path, and nothing when it was cancelled;
\* the calls reach the item in that order, so a download still waiting for its
\* answer ends in progress at the chosen path, and a cancelled dialog leaves
\* the item as it was.  No other step makes a call on the item.
C5_AcceptIffPathChosen ==
    [][/\ chooserShown' = chooserShown + 1 =>
            /\ file_path' # "" =>
                  calls' = calls \o <<[op |-> "setPath", arg |-> file_path'],
                                      [op |-> "accept", arg |-> ""]>>
            /\ file_path' = "" => calls' = calls /\ download' = download
            /\ file_path' # "" /\ download.state = "DownloadRequested" =>
                  download' = [path |-> file_path', state |-> "DownloadInProgress"]
       /\ calls' # calls => calls' = <<>> \/ chooserShown' = chooserShown + 1]_vars

\* the suggested path was /tmp/file.zip, the user chose another and it was accepted
C5_ChosenPathAccepted ==
    /\ download = [path |-> "/home/user/file.zip", state |-> "DownloadInProgress"]
    /\ file_path = "/home/user/file.zip"
    /\ calls = <<SetPathCall("/home/user/file.zip"), AcceptCall>>

AcceptCalls == {i \in 1..Len(calls) : calls[i].op = "accept"}

\* C6: whenever a view's URL changes, the URL bar shows exactly the new URL; the
\* engine's report changes no other view's URL and makes no call on any view;
\* the text then stays until another URL change or an edit.
C6_UrlBarShowsReportedUrl ==
    [][/\ \A v \in 1..Len(url) :
              url'[v] # url[v] => url_bar' = toString(url'[v]) /\ ~edited'
       /\ \A v \in 1..Len(url) : \A qurl \in UrlUniverse :
              EngineUrlChanged(v, qurl) =>
                  /\ engineCall' = engineCall
                  /\ \A w \in 1..Len(url) : w # v => url'[w] = url[w]
       /\ url_bar' # url_bar => edited' \/ \E v \in 1..Len(url) : url'[v] # url[v]]_vars

\* the bar shows the URL a view moved to
C6_BarShowsNewUrl ==
    /\ urlChangedSeen
    /\ ~edited
    /\ \E v \in 1..Len(url) : url[v] # StartUrl /\ url_bar = toString(url[v])

\* C7: one dialog and at most one accept() per downloadRequested event.
C7_OneChooserPerEvent ==
    /\ chooserShown <= 1
    /\ Cardinality(AcceptCalls) <= 1
    /\ phase = "Idle" /\ download # NoDownload => chooserShown = 1

\* C8: the current index is a position of the tab sequence.
C8_CurrentIndexValid == currentIndex \in 0..(Len(tabs) - 1)

\* tabs were closed and the current tab is the last of those left
C8_ClosedAndCurrentLast ==
    /\ Len(url) > Len(tabs)
    /\ Len(tabs) >= 2
    /\ currentIndex = Len(tabs) - 1

\* C9: back, forward, reload, home and load_url call the view of the current
\* tab and no other, home sends it to the start address, and all five leave the
\* URLs of the other views, the tabs, the current index and the mode alone.
C9_ActsOnActiveOnly ==
    [][/\ go_back \/ go_forward \/ reload_page \/ go_home \/ load_url =>
            /\ engineCall'.view = tabs[currentIndex + 1]
            /\ \A v \in 1..Len(url) : v # tabs[currentIndex + 1] => url'[v] = url[v]
            /\ Len(url') = Len(url)
            /\ tabs' = tabs
            /\ currentIndex' = currentIndex
            /\ Theme' = Theme
       /\ go_home => url'[tabs[currentIndex + 1]] = QUrl(StartAddress)]_vars

\* back was pressed on the second of two tabs, whose views are at different URLs
C9_BackOnSecondTab ==
    /\ Len(tabs) = 2
    /\ currentIndex = 1
    /\ engineCall = [view |-> tabs[2], op |-> "back"]
    /\ url[tabs[1]] # url[tabs[2]]

\* C10: once a URL change has been reported and while the user is not typing,
\* the URL bar shows the URL of the current tab's view.
C10_BarShowsActiveUrl ==
    urlChangedSeen /\ ~edited => url_bar = toString(url[tabs[currentIndex + 1]])

====
